---- MODULE Spec2Model ----
(***************************************************************************)
(* A model of LabelSentences.py, a Sublime Text plugin that locates        *)
(* sentences in an XML-tagged document and wraps them in                   *)
(* <span id="sNNNNN"> markers.                                             *)
(*                                                                         *)
(* The document is a sequence of characters.  A character is a one-letter  *)
(* string; the non-ASCII characters of the source's patterns have names:   *)
(*   "LDQ" = U+201C, "RDQ" = U+201D, "RSQ" = U+2019, "ELL" = U+2026,       *)
(*   "NL" = line feed.                                                     *)
(* Positions are the editor's 0-based offsets: the character at position p *)
(* is d[p + 1].  Every regular expression of the source is an operator     *)
(* XxxAt(d, i) giving the end of the match that starts at position i, as   *)
(* the backtracking engine finds it, or -1.                                *)
(***************************************************************************)
EXTENDS Integers, Sequences, FiniteSets, TLC

VARIABLES
  doc,        \* the view's buffer
  sel,        \* the view's selection: a sequence of regions
  hostClamps, \* what view.find does with a negative start point (see StartPoint)
  op,         \* the last command run ("init" before any)
  ok,         \* the value the last command's helper returned
  out,        \* what the last command's locate or balance call gave
  arg,        \* the selection the last command was applied to
  before,     \* the buffer before the last command
  replaces,   \* the number of v.replace calls the last command made
  labels      \* how many labelling spans the commands have inserted

vars == <<doc, sel, hostClamps, op, ok, out, arg, before, replaces, labels>>

---------------------------------------------------------------------------
(* Characters and character classes of the regular expression engine.      *)

Upper == {"A","B","C","D","E","F","G","H","I","J","K","L","M",
          "N","O","P","Q","R","S","T","U","V","W","X","Y","Z"}
Lower == {"a","b","c","d","e","f","g","h","i","j","k","l","m",
          "n","o","p","q","r","s","t","u","v","w","x","y","z"}
Digit == {"0","1","2","3","4","5","6","7","8","9"}

\* \w
IsWord(c) == c \in Upper \cup Lower \cup Digit \cup {"_"}
\* \s
IsSpace(c) == c \in {" ", "NL"}
\* [A-Z0-9]
IsCapOrDigit(c) == c \in Upper \cup Digit

\* The character at position p; "EOT" where the buffer has none.
Ch(d, p) == IF p >= 0 /\ p < Len(d) THEN d[p + 1] ELSE "EOT"
IsChar(d, p) == p >= 0 /\ p < Len(d)

Min(S) == CHOOSE x \in S : \A y \in S : x <= y
MinOf(x, y) == IF x <= y THEN x ELSE y
MaxOf(x, y) == IF x >= y THEN x ELSE y

---------------------------------------------------------------------------
(* sublime.Region                                                          *)

Region(x, y) == [a |-> x, b |-> y]
NoRegion == Region(-1, -1)
Begin(r) == MinOf(r.a, r.b)
End(r) == MaxOf(r.a, r.b)
Empty(r) == r.a = r.b

\* Region.intersects
Intersects(l, r) ==
  LET lb == Begin(l)
      le == End(l)
      rb == Begin(r)
      re == End(r)
  IN \/ (lb = rb /\ le = re)
     \/ (rb > lb /\ rb < le)
     \/ (re > lb /\ re < le)
     \/ (lb > rb /\ lb < re)
     \/ (le > rb /\ le < re)

\* Region.cover
Cover(l, r) ==
  LET x == MinOf(Begin(l), Begin(r))
      y == MaxOf(End(l), End(r))
  IN IF l.a < l.b THEN Region(x, y) ELSE Region(y, x)

---------------------------------------------------------------------------
(* sublime.View                                                            *)

\* view.substr: the characters of the region, the region clipped to the buffer.
Substr(d, r) ==
  LET x == MaxOf(0, Begin(r))
      y == MinOf(Len(d), End(r))
  IN IF x >= y THEN << >> ELSE SubSeq(d, x + 1, y)

\* Where view.find starts for the start point p.  The plugin passes the
\* not-found sentinel -1 back as a start point; the API does not say what
\* the editor does with it, so both outcomes are kept: it clamps the point to
\* the buffer start, or it finds nothing.
StartPoint(d, p) ==
  IF p >= 0 THEN p ELSE IF hostClamps THEN 0 ELSE Len(d) + 1

\* view.replace(edit, region, text)
Replace(d, r, text) ==
  SubSeq(d, 1, Begin(r)) \o text \o SubSeq(d, End(r) + 1, Len(d))

\* A position of the selection after Replace(d, r, text): the editor keeps
\* selections attached to their text.
Shift(p, r, text) == IF p >= End(r) THEN p + Len(text) - (End(r) - Begin(r)) ELSE p

---------------------------------------------------------------------------
(* The tag patterns.                                                       *)

\* The text lit at position i.
LiteralAt(lit, d, i) ==
  IF \A k \in 1 .. Len(lit) : Ch(d, i + k - 1) = lit[k] THEN i + Len(lit) ELSE -1

\* The position of the first ">" at or after j, or -1.
MinOrNone(S) == IF S = {} THEN -1 ELSE Min(S)
FirstGt(d, j) == MinOrNone({k \in j .. Len(d) - 1 : k >= 0 /\ d[k + 1] = ">"})

\* The end of the run of \w that starts at j (j itself when there is none).
RECURSIVE WordRunEnd(_, _)
WordRunEnd(d, j) == IF IsWord(Ch(d, j)) THEN WordRunEnd(d, j + 1) ELSE j

\* tagRx = <[^>]+>, g being the first ">" after the character that follows "<"
TagUpTo(d, i, g) == IF Ch(d, i) = "<" /\ g >= i + 2 THEN g + 1 ELSE -1
TagAt(d, i) == TagUpTo(d, i, FirstGt(d, i + 1))

\* openTagRx = <\w[^>]+>, g being the first ">" after the character that
\* follows the \w
OpenTagUpTo(d, i, g) ==
  IF Ch(d, i) = "<" /\ IsWord(Ch(d, i + 1)) /\ g >= i + 3 THEN g + 1 ELSE -1
OpenTagAt(d, i) == OpenTagUpTo(d, i, FirstGt(d, i + 2))

\* closeTagRx = </\w+>, e being the end of the run of \w
CloseTagUpTo(d, i, e) ==
  IF Ch(d, i) = "<" /\ Ch(d, i + 1) = "/" /\ e > i + 2 /\ Ch(d, e) = ">"
  THEN e + 1 ELSE -1
CloseTagAt(d, i) == CloseTagUpTo(d, i, WordRunEnd(d, i + 2))

\* "</" + tagName + ">"
ClosingNamedAt(name, d, i) == LiteralAt(<<"<", "/">> \o name \o <<">">>, d, i)

\* "<" + tagName + "\b[^>]*>", e being the end of "<" + tagName
OpeningNamedUpTo(d, e, g) == IF g # -1 THEN g + 1 ELSE -1
OpeningNamedFrom(d, e) ==
  IF e # -1 /\ ~IsWord(Ch(d, e)) THEN OpeningNamedUpTo(d, e, FirstGt(d, e)) ELSE -1
OpeningNamedAt(name, d, i) == OpeningNamedFrom(d, LiteralAt(<<"<">> \o name, d, i))

\* \w+
WordAt(d, i) == IF IsWord(Ch(d, i)) THEN WordRunEnd(d, i) ELSE -1

---------------------------------------------------------------------------
(* BoundaryClassifier: the sentence patterns, lines 11-44.                 *)

OpenQuoteOrParen == {"LDQ", "\"", "("}     \* [“"(]
CloseQuote == {"RDQ", "\"", "RSQ"}         \* closeQuoteRx = [”"’]
CloseQuoteOrParen == CloseQuote \cup {")"} \* closeQuoteOrParenRx = [”"’)]

\* The end of the run of characters of class S that starts at j.
RECURSIVE RunEnd(_, _, _)
RunEnd(S, d, j) == IF Ch(d, j) \in S THEN RunEnd(S, d, j + 1) ELSE j

\* (<[^>]+>)* taken greedily from j.
RECURSIVE TagsEnd(_, _)
TagsFrom(d, j, t) == IF t # -1 THEN TagsEnd(d, t) ELSE j
TagsEnd(d, j) == TagsFrom(d, j, TagAt(d, j))

ReportingVerbs ==
  { <<"s","a","i","d">>, <<"a","s","k","e","d">>,
    <<"e","x","c","l","a","i","m","e","d">>,
    <<"d","e","c","l","a","r","e","d">>, <<"r","e","m","a","r","k","e","d">> }

\* \w*\s(said|asked|exclaimed|declared|remarked)\. matches at k, w being the
\* end of the \w*
ReportingVerbAfter(d, w) ==
  IsSpace(Ch(d, w))
    /\ \E v \in ReportingVerbs : LiteralAt(v \o <<".">>, d, w + 1) # -1
ReportingVerbFollows(d, k) == ReportingVerbAfter(d, WordRunEnd(d, k))

\* startSentenceRx: the capital or digit at t, then the negative lookahead
CapitalAt(d, t) ==
  IF IsCapOrDigit(Ch(d, t)) /\ ~ReportingVerbFollows(d, t + 1) THEN t + 1 ELSE -1
\* its first alternative, the quotes and parentheses ending at q
QuotedStartAt(d, i, q) == IF q > i THEN CapitalAt(d, TagsEnd(d, q)) ELSE CapitalAt(d, i)
StartSentenceAt(d, i) == QuotedStartAt(d, i, RunEnd(OpenQuoteOrParen, d, i))

\* The text lit ends just before position i.
Preceded(lit, d, i) == i >= Len(lit) /\ LiteralAt(lit, d, i - Len(lit)) # -1

\* line 28: (?<!Mr)(?<!Mrs)(?<!Ms)(?<!Dr)(?<!Sr)(?<!Jr)
AfterTitle(d, i) ==
  \E t \in { <<"M","r">>, <<"M","r","s">>, <<"M","s">>,
             <<"D","r">>, <<"S","r">>, <<"J","r">> } : Preceded(t, d, i)

\* line 29: (?<![A-Z]\.[A-Z])
AfterDottedAbbreviation(d, i) ==
  Ch(d, i - 3) \in Upper /\ Ch(d, i - 2) = "." /\ Ch(d, i - 1) \in Upper

\* line 30: (?<!\s[A-Z]\.\s[A-Z])
AfterSpacedInitials(d, i) ==
  IsSpace(Ch(d, i - 5)) /\ Ch(d, i - 4) \in Upper /\ Ch(d, i - 3) = "."
    /\ IsSpace(Ch(d, i - 2)) /\ Ch(d, i - 1) \in Upper

\* lines 42-43: (?!\w)(?!\s[A-Z]\.) at e
EndLookaheads(d, e) ==
  /\ ~IsWord(Ch(d, e))
  /\ ~(IsSpace(Ch(d, e)) /\ Ch(d, e + 1) \in Upper /\ Ch(d, e + 2) = ".")

\* The final punctuation at i (lines 27-38): the end of its longest match, or -1.
PunctuationAt(d, i) ==
  IF Ch(d, i) = "."
  THEN IF AfterTitle(d, i) \/ AfterDottedAbbreviation(d, i) \/ AfterSpacedInitials(d, i)
       THEN -1 ELSE RunEnd({"."}, d, i)
  ELSE IF Ch(d, i) \in {"?", "!"} THEN RunEnd({"?", "!"}, d, i)
  ELSE IF Ch(d, i) = "ELL" THEN i + 1
  ELSE IF Ch(d, i) = " " /\ Ch(d, i + 1) = "-" THEN i + 2
  ELSE -1

\* endSentenceRx, as the backtracking engine matches it at i: the longest
\* punctuation (ending at p), close quote (at q) and parenthesis (at r) first;
\* when the lookaheads refuse that end it gives back the parenthesis, then the
\* quote, then one character of a run of punctuation, and the character given
\* back then satisfies both lookaheads.
EndAfterParen(d, i, p, q, r) ==
  IF EndLookaheads(d, r) THEN r
  ELSE IF r > q THEN q
  ELSE IF q > p THEN p
  ELSE IF Ch(d, i) \in {".", "?", "!"} /\ p - 1 > i THEN p - 1
  ELSE -1
EndAfterQuote(d, i, p, q) ==
  EndAfterParen(d, i, p, q, IF Ch(d, q) = ")" THEN q + 1 ELSE q)
EndAfterPunctuation(d, i, p) ==
  IF p = -1 THEN -1
  ELSE EndAfterQuote(d, i, p, IF Ch(d, p) \in CloseQuote THEN p + 1 ELSE p)
EndSentenceAt(d, i) == EndAfterPunctuation(d, i, PunctuationAt(d, i))

\* upToNextNonspaceTextRx = (\s*<[^>]+>)*\s*(?=[^<>\s]) at i, s being the end
\* of the \s*
RECURSIVE UpToNextNonspaceTextAt(_, _)
AfterSpaceTag(d, s, t) ==
  IF t # -1 THEN UpToNextNonspaceTextAt(d, t)
  ELSE IF IsChar(d, s) /\ Ch(d, s) \notin {"<", ">"} THEN s
  ELSE -1
AfterSpace(d, s) == AfterSpaceTag(d, s, TagAt(d, s))
UpToNextNonspaceTextAt(d, i) == AfterSpace(d, RunEnd({" ", "NL"}, d, i))

\* The start of the tag that ends at e in a run of tags that starts at i.
RECURSIVE TagBefore(_, _, _)
TagBeforeFrom(d, i, e, t) == IF t = e THEN i ELSE TagBefore(d, t, e)
TagBefore(d, i, e) == TagBeforeFrom(d, i, e, TagAt(d, i))

\* upToNextTextRx = (<[^>]+>)*(?!=<) at i: the lookahead refuses the text "=<"
\* (the pattern is written (?!=<), not (?!<)); refused after the last tag (at
\* e), the engine gives that tag back.
UpToTagsEnd(d, i, e) ==
  IF ~(Ch(d, e) = "=" /\ Ch(d, e + 1) = "<") THEN e
  ELSE IF e > i THEN TagBefore(d, i, e)
  ELSE -1
UpToNextTextAt(d, i) == UpToTagsEnd(d, i, TagsEnd(d, i))

\* closeQuoteOrParenRx + "+"
CloseQuoteOrParenRunAt(d, i) ==
  IF Ch(d, i) \in CloseQuoteOrParen THEN RunEnd(CloseQuoteOrParen, d, i) ELSE -1

CapOrDigitAt(d, i) == IF IsCapOrDigit(Ch(d, i)) THEN i + 1 ELSE -1
LtAt(d, i) == IF Ch(d, i) = "<" THEN i + 1 ELSE -1
GtAt(d, i) == IF Ch(d, i) = ">" THEN i + 1 ELSE -1
ClosePAt(d, i) == LiteralAt(<<"<", "/", "p", ">">>, d, i)

\* re.search(" -$", candidateStr)
EndsWithDash(str) ==
  Len(str) >= 2 /\ str[Len(str) - 1] = " " /\ str[Len(str)] = "-"

\* re.search(closeQuoteBangOrEllipsesRx + "$", candidateStr), the pattern being
\* (...|[…!”"’]): three characters of any kind, or one of the listed ones.
EndsWithCloseQuoteBangOrEllipses(str) ==
  \/ Len(str) >= 3 /\ \A k \in Len(str) - 2 .. Len(str) : str[k] # "NL"
  \/ Len(str) >= 1 /\ str[Len(str)] \in {"ELL", "!", "RDQ", "\"", "RSQ"}

Span == <<"s", "p", "a", "n">>
\* line 180: "<span id=\"s00000\">" and "</span>"
SpanOpen == <<"<">> \o Span \o <<" ", "i", "d", "=", "\"", "s",
                                 "0", "0", "0", "0", "0", "\"", ">">>
SpanClose == <<"<", "/">> \o Span \o <<">">>

\* labellingSpanOpenTagRx = <span id="s\d{5}">
LabellingSpanOpenTagAt(d, i) ==
  IF /\ LiteralAt(<<"<">> \o Span \o <<" ", "i", "d", "=", "\"", "s">>, d, i) # -1
     /\ \A k \in 11 .. 15 : Ch(d, i + k) \in Digit
     /\ LiteralAt(<<"\"", ">">>, d, i + 16) # -1
  THEN i + 18 ELSE -1

\* tagsNotAllowedInSpanRx = <(p|div|br)\b[^>]*>
TagNotAllowedInSpanAt(d, i) ==
  IF \E name \in { <<"p">>, <<"d", "i", "v">>, <<"b", "r">> } :
       OpeningNamedAt(name, d, i) # -1
  THEN FirstGt(d, i) + 1 ELSE -1

\* "(?<=\"s)\d{5}"
TagIdAt(d, i) ==
  IF Preceded(<<"\"", "s">>, d, i) /\ \A k \in 0 .. 4 : Ch(d, i + k) \in Digit
  THEN i + 5 ELSE -1

---------------------------------------------------------------------------
(* The patterns as the plugin hands them to view.find, view.find_all and   *)
(* re.search: a pattern is named as the source names it, the two patterns  *)
(* the plugin builds from a tag name carry that name.                      *)

Rx(name) == [rx |-> name, tagName |-> << >>]
\* line 336: matchRx = "</" + tagName + ">"
ClosingTagRx(tagName) == [rx |-> "</tagName>", tagName |-> tagName]
\* line 364: matchRx = "<" + tagName + "\\b[^>]*>"
OpeningTagRx(tagName) == [rx |-> "<tagName\\b[^>]*>", tagName |-> tagName]

\* The end of the pattern's match that starts at i, or -1.
MatchAt(matchRx, d, i) ==
  CASE matchRx.rx = "openTagRx" -> OpenTagAt(d, i)
    [] matchRx.rx = "closeTagRx" -> CloseTagAt(d, i)
    [] matchRx.rx = "tagRx" -> TagAt(d, i)
    [] matchRx.rx = "tagsNotAllowedInSpanRx" -> TagNotAllowedInSpanAt(d, i)
    [] matchRx.rx = "startSentenceRx" -> StartSentenceAt(d, i)
    [] matchRx.rx = "closeQuoteOrParenRx+" -> CloseQuoteOrParenRunAt(d, i)
    [] matchRx.rx = "upToNextNonspaceTextRx" -> UpToNextNonspaceTextAt(d, i)
    [] matchRx.rx = "upToNextTextRx" -> UpToNextTextAt(d, i)
    [] matchRx.rx = "endSentenceRx" -> EndSentenceAt(d, i)
    [] matchRx.rx = "labellingSpanOpenTagRx" -> LabellingSpanOpenTagAt(d, i)
    [] matchRx.rx = "[A-Z0-9]" -> CapOrDigitAt(d, i)
    [] matchRx.rx = "<" -> LtAt(d, i)
    [] matchRx.rx = ">" -> GtAt(d, i)
    [] matchRx.rx = "</p>" -> ClosePAt(d, i)
    [] matchRx.rx = "\\w+" -> WordAt(d, i)
    [] matchRx.rx = "tagId" -> TagIdAt(d, i)
    [] matchRx.rx = "</tagName>" -> ClosingNamedAt(matchRx.tagName, d, i)
    [] matchRx.rx = "<tagName\\b[^>]*>" -> OpeningNamedAt(matchRx.tagName, d, i)

\* view.find(pattern, start): the leftmost match that starts at or after start.
\* A match may be empty and may start at the buffer's end.
MatchRegion(m) == Region(m[1], m[2])
FirstMatch(hits) ==
  IF hits = {} THEN NoRegion
  ELSE MatchRegion(CHOOSE m \in hits : \A n \in hits : m[1] <= n[1])
Find(matchRx, d, start) ==
  FirstMatch({m \in {<<i, MatchAt(matchRx, d, i)>> : i \in StartPoint(d, start) .. Len(d)} :
                m[2] # -1})

\* re.search(rx, text)
Search(matchRx, text) == \E i \in 0 .. Len(text) : MatchAt(matchRx, text, i) # -1

\* v.substr(v.find("\w+", tag.begin())): the name of the tag at a region.
TagName(d, tag) == Substr(d, Find(Rx("\\w+"), d, Begin(tag)))

---------------------------------------------------------------------------
(* TagBalancer: lines 304-419.                                             *)

Reverse(s) == [k \in 1 .. Len(s) |-> s[Len(s) + 1 - k]]

\* _findMatchesInRegion (_findOpeningTagsInRegion, _findClosingTagsInRegion):
\* MatchesFrom is the loop body, nextMatch the match found from the region's
\* begin.
RECURSIVE FindMatchesInRegion(_, _, _)
MatchesFrom(matchRx, d, region, nextMatch) ==
  IF ~Empty(nextMatch) /\ End(nextMatch) <= End(region)
  THEN <<nextMatch>>
       \o FindMatchesInRegion(matchRx, d, Region(End(nextMatch), End(region)))
  ELSE << >>
FindMatchesInRegion(matchRx, d, region) ==
  MatchesFrom(matchRx, d, region, Find(matchRx, d, Begin(region)))

FindOpeningTagsInRegion(d, region) == FindMatchesInRegion(Rx("openTagRx"), d, region)
FindClosingTagsInRegion(d, region) == FindMatchesInRegion(Rx("closeTagRx"), d, region)

\* _regionsIntersectRegion
RegionsIntersectRegion(regions, region) ==
  \E k \in 1 .. Len(regions) : Intersects(regions[k], region)

\* _findFirstClosingTagAfter: SkipExcluded is the test made on each match.
RECURSIVE FindFirstClosingTagAfter(_, _, _, _)
SkipExcluded(d, tagName, exclusions, match) ==
  IF RegionsIntersectRegion(exclusions, match)
  THEN FindFirstClosingTagAfter(d, tagName, End(match), exclusions)
  ELSE match
FindFirstClosingTagAfter(d, tagName, startingAt, exclusions) ==
  SkipExcluded(d, tagName, exclusions,
               Find(ClosingTagRx(tagName), d, startingAt))

\* line 356: lastClosingTagEnd = max(lastClosingTagEnd, closingTag.end())
LastClosingTagEnd_Overwrite(lastClosingTagEnd, closingTag) == End(closingTag)
LastClosingTagEnd(lastClosingTagEnd, closingTag) ==
  MaxOf(lastClosingTagEnd, End(closingTag))

\* The loop of _expandRegionToEncloseMatchingClosingTags over openingTags[k..],
\* giving the final lastClosingTagEnd; ClosingStep is the body once the
\* closing tag of openingTags[k] is found.
RECURSIVE ClosingLoop(_, _, _, _, _)
ClosingStep(d, openingTags, k, exclusions, lastClosingTagEnd, closingTag) ==
  ClosingLoop(d, openingTags, k + 1,
              Append(exclusions, Region(Begin(openingTags[k]), End(closingTag))),
              LastClosingTagEnd(lastClosingTagEnd, closingTag))
ClosingLoop(d, openingTags, k, exclusions, lastClosingTagEnd) ==
  IF k > Len(openingTags) THEN lastClosingTagEnd
  ELSE ClosingStep(d, openingTags, k, exclusions, lastClosingTagEnd,
                   FindFirstClosingTagAfter(d, TagName(d, openingTags[k]),
                                            End(openingTags[k]), exclusions))

\* _expandRegionToEncloseMatchingClosingTags
ExpandRegionToEncloseMatchingClosingTags(d, region) ==
  Region(Begin(region),
         ClosingLoop(d, Reverse(FindOpeningTagsInRegion(d, region)), 1, << >>,
                     End(region)))

\* The size of the block _findLastOpeningTagBefore searches backward.
SearchBlock == 100

\* findLastMatchInRegion of _findLastOpeningTagBefore: LastOrFirst is the
\* choice between the last match of the rest and the first match,
\* LastMatchFrom the test on the first match.
RECURSIVE FindLastMatchInRegion(_, _, _, _)
LastOrFirst(exclusions, firstMatch, lastMatch) ==
  IF ~Empty(lastMatch) THEN lastMatch
  ELSE IF RegionsIntersectRegion(exclusions, firstMatch) THEN NoRegion
  ELSE firstMatch
LastMatchFrom(d, tagName, exclusions, region, firstMatch) ==
  IF Empty(firstMatch) \/ Begin(firstMatch) > End(region) THEN NoRegion
  ELSE LastOrFirst(exclusions, firstMatch,
                   FindLastMatchInRegion(d, tagName, exclusions,
                                         Region(End(firstMatch), End(region))))
FindLastMatchInRegion(d, tagName, exclusions, region) ==
  LastMatchFrom(d, tagName, exclusions, region,
                Find(OpeningTagRx(tagName), d, Begin(region)))

\* findLastBeforePoint of _findLastOpeningTagBefore: BlockResult is the test on
\* the match of one block.
RECURSIVE FindLastBeforePoint(_, _, _, _)
BlockResult(d, tagName, exclusions, startPoint, match) ==
  IF Empty(match)
  THEN IF startPoint <= 0 THEN NoRegion
       ELSE FindLastBeforePoint(d, tagName, exclusions, startPoint)
  ELSE match
FindLastBeforePoint(d, tagName, exclusions, endPoint) ==
  BlockResult(d, tagName, exclusions, MaxOf(0, endPoint - SearchBlock),
              FindLastMatchInRegion(d, tagName, exclusions,
                                    Region(MaxOf(0, endPoint - SearchBlock), endPoint)))

\* _findLastOpeningTagBefore
FindLastOpeningTagBefore(d, tagName, endingAt, exclusions) ==
  FindLastBeforePoint(d, tagName, exclusions, endingAt)

\* The loop of _expandRegionToEncloseMatchingOpeningTags over closingTags[k..],
\* giving the final firstOpeningTagBegin; OpeningStep is the body once the
\* opening tag of closingTags[k] is found.
RECURSIVE OpeningLoop(_, _, _, _, _)
OpeningStep(d, closingTags, k, exclusions, firstOpeningTagBegin, openingTag) ==
  OpeningLoop(d, closingTags, k + 1,
              Append(exclusions, Region(Begin(openingTag), End(closingTags[k]))),
              MinOf(firstOpeningTagBegin, Begin(openingTag)))
OpeningLoop(d, closingTags, k, exclusions, firstOpeningTagBegin) ==
  IF k > Len(closingTags) THEN firstOpeningTagBegin
  ELSE OpeningStep(d, closingTags, k, exclusions, firstOpeningTagBegin,
                   FindLastOpeningTagBefore(d, TagName(d, closingTags[k]),
                                            Begin(closingTags[k]), exclusions))

\* _expandRegionToEncloseMatchingOpeningTags
ExpandRegionToEncloseMatchingOpeningTags(d, region) ==
  Region(OpeningLoop(d, FindClosingTagsInRegion(d, region), 1, << >>, Begin(region)),
         End(region))

\* _expandRegionToEnsureMatchingTags
ExpandRegionToEnsureMatchingTags(d, region) ==
  ExpandRegionToEncloseMatchingOpeningTags(d,
    ExpandRegionToEncloseMatchingClosingTags(d, region))

---------------------------------------------------------------------------
(* BoundaryClassifier and SentenceLocator: lines 185-302.                  *)

\* The value of a call that does not return: it calls itself again with the
\* arguments of an earlier call.
Diverged == -2

\* _findNextNonspaceTextStart
FindNextNonspaceTextStart(d, searchFrom) ==
  End(Find(Rx("upToNextNonspaceTextRx"), d, searchFrom))

\* _findNextTextStart
FindNextTextStart(d, searchFrom) == End(Find(Rx("upToNextTextRx"), d, searchFrom))

\* lines 290-293: if startAt is inside a tag, move it to the end of the tag
MoveToTagEnd(startAt, nextOpenBracket, nextCloseBracket) ==
  IF Begin(nextCloseBracket) < Begin(nextOpenBracket)
  THEN End(nextCloseBracket) ELSE startAt
SkipEnclosingTag(d, startAt) ==
  MoveToTagEnd(startAt, Find(Rx("<"), d, startAt), Find(Rx(">"), d, startAt))

\* _getNextSentenceStartAfter; seen holds the start points of the calls that
\* led to this one.  CandidateOrNextTag is lines 297-302, StartFrom lines
\* 295-296.
RECURSIVE GetNextSentenceStartFrom(_, _, _)
CandidateOrNextTag(d, seen, nextTag, candidate) ==
  IF Begin(nextTag) = -1 \/ candidate < Begin(nextTag)
  THEN candidate
  ELSE GetNextSentenceStartFrom(d, End(nextTag), seen)
StartFrom(d, seen, startAt) ==
  CandidateOrNextTag(d, seen, Find(Rx("tagRx"), d, startAt),
                     Begin(Find(Rx("startSentenceRx"), d, startAt)))
GetNextSentenceStartFrom(d, startAt0, seen) ==
  IF startAt0 \in seen THEN Diverged
  ELSE StartFrom(d, seen \cup {startAt0}, SkipEnclosingTag(d, startAt0))

GetNextSentenceStartAfter(d, startAt) == GetNextSentenceStartFrom(d, startAt, {})

\* _findEndOfSentenceStartingAt: EndOrExtend is lines 249-255, DashOrEnd lines
\* 242-249, EndFromCandidate lines 236-239.
RECURSIVE FindEndOfSentenceStartingAt(_, _)
EndOrExtend(d, candidateStr, candidateEnd, nextNonspaceTextStart, nextSentenceStart) ==
  IF nextSentenceStart = Diverged THEN Diverged
  ELSE IF EndsWithCloseQuoteBangOrEllipses(candidateStr)
          /\ nextNonspaceTextStart < nextSentenceStart
  THEN FindEndOfSentenceStartingAt(d, candidateEnd)
  ELSE candidateEnd
DashOrEnd(d, candidateStr, candidateEnd, nextNonspaceTextStart, nextCloseP) ==
  IF EndsWithDash(candidateStr) /\ nextNonspaceTextStart < Begin(nextCloseP)
  THEN FindEndOfSentenceStartingAt(d, candidateEnd)
  ELSE EndOrExtend(d, candidateStr, candidateEnd, nextNonspaceTextStart,
                   GetNextSentenceStartAfter(d, candidateEnd))
EndFromCandidate(d, candidateStr, candidateEnd) ==
  DashOrEnd(d, candidateStr, candidateEnd,
            FindNextNonspaceTextStart(d, candidateEnd),
            Find(Rx("</p>"), d, candidateEnd))
EndOfCandidate(d, candidateR) ==
  EndFromCandidate(d, Substr(d, candidateR), End(candidateR))
FindEndOfSentenceStartingAt(d, sentenceStart) ==
  EndOfCandidate(d, Find(Rx("endSentenceRx"), d, sentenceStart))

\* _findTrailingCloseQuoteOrParenAt; NoRegion stands for None (both are false
\* where the caller tests the result).
TrailingIfNext(nextTextStart, closeQuoteOrParen) ==
  IF nextTextStart = Begin(closeQuoteOrParen) THEN closeQuoteOrParen ELSE NoRegion
TrailingFrom(d, nextTextStart) ==
  TrailingIfNext(nextTextStart, Find(Rx("closeQuoteOrParenRx+"), d, nextTextStart))
FindTrailingCloseQuoteOrParenAt(d, position) ==
  TrailingFrom(d, FindNextTextStart(d, position))

\* lines 263-266: if the next text after candidate end is a close quote or
\* parentheses, extend to include it.
CoverTrailing(balanced, trailingQuoteOrParen) ==
  IF ~Empty(trailingQuoteOrParen) THEN Cover(balanced, trailingQuoteOrParen) ELSE balanced

AbsorbTrailing(d, balanced) ==
  CoverTrailing(balanced, FindTrailingCloseQuoteOrParenAt(d, End(balanced)))

\* _extendRegionToValidSentence; ExtendAgain is its lines 268-272.
RECURSIVE ExtendRegionToValidSentence(_, _)
ExtendAgain(d, region, correctedRegion) ==
  IF correctedRegion # region
  THEN ExtendRegionToValidSentence(d, correctedRegion)
  ELSE region

ExtendRegionToValidSentence(d, region) ==
  ExtendAgain(d, region, AbsorbTrailing(d, ExpandRegionToEnsureMatchingTags(d, region)))

\* What a locate operation gives its caller: a region, None, or no return.
Found(region) == [kind |-> "region", region |-> region]
None == [kind |-> "none", region |-> NoRegion]
NoReturn == [kind |-> "diverged", region |-> NoRegion]

\* lines 224-226: continue searching for sentence end if sentence is 2
\* characters long
SkipTwoCharacterSentence(d, firstWord, sentenceEnd) ==
  IF sentenceEnd - firstWord = 2
  THEN End(Find(Rx("endSentenceRx"), d, sentenceEnd)) ELSE sentenceEnd

\* _findSentenceStartingAt: SentenceUpTo is lines 222-230.
SentenceUpTo(d, sentenceStart, firstWord, sentenceEnd) ==
  IF sentenceEnd = Diverged THEN NoReturn
  ELSE IF sentenceEnd = -1 THEN None
  ELSE Found(ExtendRegionToValidSentence(d,
         Region(sentenceStart, SkipTwoCharacterSentence(d, firstWord, sentenceEnd))))
FindSentenceStartingAt(d, sentenceStart) ==
  SentenceUpTo(d, sentenceStart, Begin(Find(Rx("[A-Z0-9]"), d, sentenceStart)),
               FindEndOfSentenceStartingAt(d, sentenceStart))

\* _findNextSentenceAfterPoint: SentenceFrom is lines 190-191.
SentenceFrom(d, sentenceStart) ==
  IF sentenceStart = Diverged THEN NoReturn
  ELSE IF sentenceStart = -1 THEN None
  ELSE FindSentenceStartingAt(d, sentenceStart)
FindNextSentenceAfterPoint(d, point) ==
  SentenceFrom(d, GetNextSentenceStartAfter(d, point))

\* line 212: the intervening-text guard
NextTextBeforeStart(nextTextStart, sentenceStart) == nextTextStart < sentenceStart

\* _findNextSentenceAfterRegion: SentenceAfter is lines 210-215.
SentenceAfter(d, region, sentenceStart) ==
  IF sentenceStart = Diverged THEN NoReturn
  ELSE IF sentenceStart = -1 THEN None
  ELSE IF NextTextBeforeStart(FindNextNonspaceTextStart(d, End(region)), sentenceStart)
  THEN None
  ELSE FindSentenceStartingAt(d, sentenceStart)
FindNextSentenceAfterRegion(d, region) ==
  SentenceAfter(d, region, GetNextSentenceStartAfter(d, End(region)))
---------------------------------------------------------------------------
(* SpanLabeler: lines 133-183.                                             *)

\* lines 155-156: is region immediately preceded by labeling span tag?
ImmediatelyPrecedes(d, precedingOpeningSpan, region) ==
  /\ End(precedingOpeningSpan) = Begin(region)
  /\ Search(Rx("labellingSpanOpenTagRx"), Substr(d, precedingOpeningSpan))

\* _regionIsLabeled
RegionIsLabeled(d, region) ==
  IF Empty(region) THEN FALSE
  ELSE IF Search(Rx("labellingSpanOpenTagRx"), Substr(d, region)) THEN TRUE
  ELSE ImmediatelyPrecedes(d, FindLastOpeningTagBefore(d, Span, Begin(region), << >>),
                           region)

\* What _surroundRegionWithSpan does: whether it succeeded, the buffer it
\* leaves and the number of v.replace calls it made.
Refused(d) == [ok |-> FALSE, doc |-> d, replaces |-> 0]

\* line 174: re.search(tagsNotAllowedInSpanRx, regionText)
ContainsTagNotAllowedInSpan(regionText) == Search(Rx("tagsNotAllowedInSpanRx"), regionText)

\* line 180: "<span id=\"s00000\">" + regionText + "</span>"
Surrounded(regionText) == SpanOpen \o regionText \o SpanClose

\* _surroundRegionWithSpan
SurroundRegionWithSpan(d, region) ==
  IF Empty(region) THEN Refused(d)
  ELSE IF RegionIsLabeled(d, region) THEN Refused(d)
  ELSE IF ContainsTagNotAllowedInSpan(Substr(d, region)) THEN Refused(d)
  ELSE [ok |-> TRUE,
        doc |-> Replace(d, region, Surrounded(Substr(d, region))),
        replaces |-> 1]

\* The selection after v.replace(edit, region, text): the replaced region
\* covers the new text, a later position moves with its text.
ShiftRegion(r, region, text) ==
  IF r = region THEN Region(Begin(region), Begin(region) + Len(text))
  ELSE Region(Shift(r.a, region, text), Shift(r.b, region, text))

ShiftSelection(s, region, text) ==
  [k \in 1 .. Len(s) |-> ShiftRegion(s[k], region, text)]

\* The loop of _surroundSelectionsWithSpan from the k-th region of the live
\* selection s: it returns False at the first region that is refused (r being
\* what _surroundRegionWithSpan did with the k-th region).
RECURSIVE SurroundLoop(_, _, _, _)
SurroundStep(d, s, k, count, r) ==
  IF ~r.ok THEN [ok |-> FALSE, doc |-> d, sel |-> s, replaces |-> count]
  ELSE SurroundLoop(r.doc, ShiftSelection(s, s[k], Surrounded(Substr(d, s[k]))),
                    k + 1, count + 1)
SurroundLoop(d, s, k, count) ==
  IF k > Len(s) THEN [ok |-> TRUE, doc |-> d, sel |-> s, replaces |-> count]
  ELSE SurroundStep(d, s, k, count, SurroundRegionWithSpan(d, s[k]))

\* _surroundSelectionsWithSpan
SurroundSelectionsWithSpan(d, s) == SurroundLoop(d, s, 1, 0)

---------------------------------------------------------------------------
(* MarkerRenumberer: lines 93-101.                                         *)

\* view.find_all("(?<=\"s)\d{5}"): the matches from left to right, none
\* overlapping another.
RECURSIVE FindAllFrom(_, _)
FindAllAfter(d, m) ==
  IF Begin(m) = -1 THEN << >>
  ELSE <<m>> \o FindAllFrom(d, IF End(m) > Begin(m) THEN End(m) ELSE End(m) + 1)
FindAllFrom(d, from) == FindAllAfter(d, Find(Rx("tagId"), d, from))

FindAll(d) == FindAllFrom(d, 0)

\* The decimal digits of n, the last one first.
RECURSIVE DigitsReversed(_)
DigitsReversed(n) ==
  IF n < 10 THEN <<n>> ELSE <<n % 10>> \o DigitsReversed(n \div 10)

DigitChar(n) ==
  CASE n = 0 -> "0" [] n = 1 -> "1" [] n = 2 -> "2" [] n = 3 -> "3" [] n = 4 -> "4"
    [] n = 5 -> "5" [] n = 6 -> "6" [] n = 7 -> "7" [] n = 8 -> "8" [] n = 9 -> "9"

\* insert_nums with the format "1:1~0=5d": the number n in decimal, filled
\* with "0" on the left to a width of 5.
Filled(ds, w) ==
  [k \in 1 .. w |-> IF w - k + 1 <= Len(ds) THEN DigitChar(ds[w - k + 1]) ELSE "0"]
FormatDigits(ds) == Filled(ds, MaxOf(5, Len(ds)))
FormatNum(n) == FormatDigits(DigitsReversed(n))

\* insert_nums over the selected regions, the k-th one replaced by k: the
\* regions ids[k..] of the buffer d, moved by shift.
RECURSIVE InsertNums(_, _, _, _)
InsertNum(d, ids, k, shift, r, text) ==
  InsertNums(Replace(d, r, text), ids, k + 1,
             shift + Len(text) - (End(r) - Begin(r)))
InsertNums(d, ids, k, shift) ==
  IF k > Len(ids) THEN d
  ELSE InsertNum(d, ids, k, shift,
                 Region(Begin(ids[k]) + shift, End(ids[k]) + shift), FormatNum(k))

\* ReNumberSentenceTagsCommand.run, tagIds being what find_all gave
ReNumberTagIds(d, tagIds) ==
  IF Len(tagIds) > 0 THEN InsertNums(d, tagIds, 1, 0) ELSE d
ReNumberSentenceTags(d) == ReNumberTagIds(d, FindAll(d))
---------------------------------------------------------------------------
(* The commands, lines 66-131, and the user's selection.                   *)

\* How many labelling spans a behaviour inserts at most.
MaxLabels == 2

Cursor(p) == Region(p, p)

\* The region as the selection holds it: within the buffer.
Clip(d, r) ==
  Region(MaxOf(0, MinOf(Len(d), r.a)), MaxOf(0, MinOf(Len(d), r.b)))

\* The positions where the user's selections begin and end: the ends of the
\* buffer and the edges of the tags.
Stops(d) ==
  {p \in 0 .. Len(d) : \/ p = 0 \/ p = Len(d)
                       \/ Ch(d, p) = "<" \/ Ch(d, p - 1) = ">"}

\* The user puts the cursor somewhere or selects one region, forward or
\* backward.
Select ==
  /\ labels < MaxLabels
  /\ \E x \in Stops(doc), y \in Stops(doc) : sel' = <<Region(x, y)>>
  /\ op' = "select" /\ ok' = TRUE /\ out' = None /\ arg' = << >>
  /\ before' = doc /\ replaces' = 0
  /\ UNCHANGED <<doc, hostClamps, labels>>

\* The user selects a region that ends at any position of the buffer.
SelectUpTo ==
  /\ labels < MaxLabels
  /\ \E y \in 1 .. Len(doc) : sel' = <<Region(0, y)>>
  /\ op' = "select" /\ ok' = TRUE /\ out' = None /\ arg' = << >>
  /\ before' = doc /\ replaces' = 0
  /\ UNCHANGED <<doc, hostClamps, labels>>

\* The user puts the cursor at any position of the buffer.
PlaceCursor ==
  /\ labels < MaxLabels
  /\ \E x \in 0 .. Len(doc) : sel' = <<Cursor(x)>>
  /\ op' = "select" /\ ok' = TRUE /\ out' = None /\ arg' = << >>
  /\ before' = doc /\ replaces' = 0
  /\ UNCHANGED <<doc, hostClamps, labels>>

\* The user selects two regions, the first one before the second.
SelectTwo ==
  /\ labels + 2 <= MaxLabels
  /\ \E w \in Stops(doc), x \in Stops(doc), y \in Stops(doc), z \in Stops(doc) :
       /\ w < x /\ x <= y /\ y < z
       /\ sel' = <<Region(w, x), Region(y, z)>>
  /\ op' = "select" /\ ok' = TRUE /\ out' = None /\ arg' = << >>
  /\ before' = doc /\ replaces' = 0
  /\ UNCHANGED <<doc, hostClamps, labels>>

\* SurroundSelectionWithSpanCommand.run, r being what
\* _surroundSelectionsWithSpan did
Surrounding(r) ==
  /\ doc' = r.doc
  /\ sel' = r.sel
  /\ ok' = r.ok
  /\ replaces' = r.replaces
  /\ labels' = labels + r.replaces
  /\ op' = "surround" /\ out' = None /\ arg' = sel /\ before' = doc
  /\ UNCHANGED hostClamps
SurroundSelectionWithSpan ==
  /\ labels + Len(sel) <= MaxLabels
  /\ Surrounding(SurroundSelectionsWithSpan(doc, sel))

\* _selectNextSentence: the sentence it looks for from the selection s.
NextSentence(d, s) ==
  IF Empty(s[1]) THEN FindNextSentenceAfterPoint(d, Begin(s[1]))
  ELSE FindNextSentenceAfterRegion(d, s[1])

\* SelectNextSentenceCommand.run, sentence being what _selectNextSentence found
Selecting(sentence) ==
  /\ out' = sentence
  /\ ok' = (sentence.kind = "region")
  /\ sel' = IF sentence.kind = "region" THEN <<Clip(doc, sentence.region)>> ELSE sel
  /\ op' = "next" /\ arg' = sel /\ before' = doc /\ replaces' = 0
  /\ UNCHANGED <<doc, hostClamps, labels>>
SelectNextSentence ==
  /\ Len(sel) > 0
  /\ Selecting(NextSentence(doc, sel))

\* ReNumberSentenceTagsCommand.run, tagIds being what find_all gave
ReNumbering(tagIds) ==
  /\ doc' = ReNumberTagIds(doc, tagIds)
  /\ sel' = IF Len(tagIds) > 0 THEN tagIds ELSE sel
  /\ op' = "renumber" /\ ok' = TRUE /\ out' = None /\ arg' = sel /\ before' = doc
  /\ replaces' = Len(tagIds)
  /\ UNCHANGED <<hostClamps, labels>>
ReNumber == ReNumbering(FindAll(doc))

\* The tag balancer applied to the selected region.
Balance ==
  /\ Len(sel) > 0
  /\ out' = Found(ExpandRegionToEnsureMatchingTags(doc, sel[1]))
  /\ op' = "balance" /\ ok' = TRUE /\ arg' = sel /\ before' = doc /\ replaces' = 0
  /\ UNCHANGED <<doc, sel, hostClamps, labels>>

\* The tag balancer repeated to a fixed point, as _findSentenceStartingAt
\* applies it to the sentence it found.
Extend ==
  /\ Len(sel) > 0
  /\ out' = Found(ExtendRegionToValidSentence(doc, sel[1]))
  /\ op' = "extend" /\ ok' = TRUE /\ arg' = sel /\ before' = doc /\ replaces' = 0
  /\ UNCHANGED <<doc, sel, hostClamps, labels>>
---------------------------------------------------------------------------
(* The documents the behaviours start from: every text made of a few       *)
(* fragments, and the example texts of the specification.                  *)

RECURSIVE Concat(_)
Concat(fs) == IF fs = << >> THEN << >> ELSE Head(fs) \o Concat(Tail(fs))

\* The texts made of 1 to n fragments of F.
DocsFrom(F, n) == {Concat(fs) : fs \in UNION {[1 .. k -> F] : k \in 1 .. n}}

MaxProseFrags == 4
MaxTagFrags == 3
MaxLabelFrags == 3
MaxNumberFrags == 3

\* "J. K. Rowling wrote it. Next sentence."
InitialsExample ==
  <<"J","."," ","K","."," ","R","o","w","l","i","n","g"," ","w","r","o","t",
    "e"," ","i","t","."," ","N","e","x","t"," ","s","e","n","t","e","n","c",
    "e",".">>

\* "Mr. Smith arrived. He left."
AbbreviationExample ==
  <<"M","r","."," ","S","m","i","t","h"," ","a","r","r","i","v","e","d",".",
    " ","H","e"," ","l","e","f","t",".">>

\* "<p>Hello <b>world</b> today.</p> More."
NestedTagExample ==
  <<"<","p",">","H","e","l","l","o"," ","<","b",">","w","o","r","l","d","<",
    "/","b",">"," ","t","o","d","a","y",".","<","/","p",">"," ","M","o","r",
    "e",".">>

ProseFrags ==
  { <<"K", ".", " ">>, <<"R", "o", ".">>, <<"R", "o", " ">>,
    <<"<", "b", ">">>, <<"<", "/", "b", ">">>, <<"<">> }

ProseDocs ==
  DocsFrom(ProseFrags, MaxProseFrags)
    \cup {InitialsExample, AbbreviationExample, NestedTagExample}

TagFrags ==
  { <<"<", "e", "m", ">">>, <<"<", "/", "e", "m", ">">>,
    <<"<", "b", " ", "x", ">">>, <<"<", "b", ">">>, <<"<", "/", "b", ">">> }

TagDocs == DocsFrom(TagFrags, MaxTagFrags)

LabelFrags ==
  { <<"A", ".">>, <<"<", "p", ">">>, <<"<", "/", "p", ">">>,
    <<"<">> \o Span \o <<">">>, SpanClose, SpanOpen }

LabelDocs == DocsFrom(LabelFrags, MaxLabelFrags)

\* <span id="s00042">
SpanOpen42 ==
  <<"<">> \o Span \o <<" ", "i", "d", "=", "\"", "s",
                       "0", "0", "0", "4", "2", "\"", ">">>
\* <i class="s00042">
ClassAttribute ==
  <<"<", "i", " ", "c", "l", "a", "s", "s", "=", "\"", "s",
    "0", "0", "0", "4", "2", "\"", ">">>

NumberFrags == {SpanOpen, SpanOpen42, ClassAttribute, SpanClose, <<"A", ".">>}

NumberDocs == DocsFrom(NumberFrags, MaxNumberFrags)

---------------------------------------------------------------------------
(* The specifications: the editor opens a document, the user moves the     *)
(* selection and runs the commands.                                        *)

InitWith(D) ==
  /\ doc \in D
  /\ sel = <<Cursor(0)>>
  /\ hostClamps \in BOOLEAN
  /\ op = "init" /\ ok = TRUE /\ out = None /\ arg = << >>
  /\ before = doc /\ replaces = 0 /\ labels = 0

InitLocate == InitWith(ProseDocs)
NextLocate == PlaceCursor \/ SelectUpTo \/ SelectNextSentence
SpecLocate == InitLocate /\ [][NextLocate]_vars

InitBalance == InitWith(TagDocs)
NextBalance == Select \/ Balance \/ Extend
SpecBalance == InitBalance /\ [][NextBalance]_vars

InitLabel == InitWith(LabelDocs)
NextLabel == Select \/ SelectTwo \/ SurroundSelectionWithSpan
SpecLabel == InitLabel /\ [][NextLabel]_vars

InitNumber == InitWith(NumberDocs)
NextNumber == ReNumber
SpecNumber == InitNumber /\ [][NextNumber]_vars

---------------------------------------------------------------------------
(* What the specification means by a tag, by matching tags and by a        *)
(* marker, stated apart from the plugin's patterns: the properties below   *)
(* compare the plugin's results with these.                                *)

\* An opening tag <name ...> at i: its end, or -1.
TrueOpenUpTo(d, i, g) ==
  IF Ch(d, i) = "<" /\ IsWord(Ch(d, i + 1)) /\ g # -1
       /\ \A k \in i + 1 .. g : Ch(d, k) # "<"
  THEN g + 1 ELSE -1
TrueOpenTagAt(d, i) == TrueOpenUpTo(d, i, FirstGt(d, i + 1))

\* A closing tag </name> at i: its end, or -1.
TrueCloseUpTo(d, i, e) ==
  IF Ch(d, i) = "<" /\ Ch(d, i + 1) = "/" /\ e > i + 2 /\ Ch(d, e) = ">"
  THEN e + 1 ELSE -1
TrueCloseTagAt(d, i) == TrueCloseUpTo(d, i, WordRunEnd(d, i + 2))

TrueOpenName(d, i) == SubSeq(d, i + 2, WordRunEnd(d, i + 1))
TrueCloseName(d, i) == SubSeq(d, i + 3, WordRunEnd(d, i + 2))

OpensNamed(d, name, p) == TrueOpenTagAt(d, p) # -1 /\ TrueOpenName(d, p) = name
ClosesNamed(d, name, p) == TrueCloseTagAt(d, p) # -1 /\ TrueCloseName(d, p) = name

\* Where the closing tag begins that matches an opening tag named name, the
\* text from p on being depth same-named elements deep; -1 when there is none.
RECURSIVE MatchingClose(_, _, _, _)
MatchingClose(d, name, p, depth) ==
  IF p >= Len(d) THEN -1
  ELSE IF OpensNamed(d, name, p)
  THEN MatchingClose(d, name, TrueOpenTagAt(d, p), depth + 1)
  ELSE IF ClosesNamed(d, name, p)
  THEN IF depth = 0 THEN p
       ELSE MatchingClose(d, name, TrueCloseTagAt(d, p), depth - 1)
  ELSE MatchingClose(d, name, p + 1, depth)

\* Where the opening tag begins that matches a closing tag named name, the
\* text before p being searched backward; -1 when there is none.
RECURSIVE MatchingOpen(_, _, _, _)
MatchingOpen(d, name, p, depth) ==
  IF p < 0 THEN -1
  ELSE IF ClosesNamed(d, name, p) THEN MatchingOpen(d, name, p - 1, depth + 1)
  ELSE IF OpensNamed(d, name, p)
  THEN IF depth = 0 THEN p ELSE MatchingOpen(d, name, p - 1, depth - 1)
  ELSE MatchingOpen(d, name, p - 1, depth)

CloseOf(d, i) == MatchingClose(d, TrueOpenName(d, i), TrueOpenTagAt(d, i), 0)
OpenOf(d, i) == MatchingOpen(d, TrueCloseName(d, i), i - 1, 0)

\* Every tag of the document has its counterpart in the document.
WellFormed(d) ==
  \A i \in 0 .. Len(d) - 1 :
    /\ TrueOpenTagAt(d, i) # -1 => CloseOf(d, i) # -1
    /\ TrueCloseTagAt(d, i) # -1 => OpenOf(d, i) # -1

\* The tag that begins at i and ends at e lies inside r.
Inside(i, e, r) == e # -1 /\ Begin(r) <= i /\ e <= End(r)

\* r is tag-balanced: the counterpart of every tag inside r is inside r.
TagBalanced(d, r) ==
  \A i \in 0 .. Len(d) - 1 :
    /\ Inside(i, TrueOpenTagAt(d, i), r)
         => CloseOf(d, i) # -1
            /\ Inside(CloseOf(d, i), TrueCloseTagAt(d, CloseOf(d, i)), r)
    /\ Inside(i, TrueCloseTagAt(d, i), r)
         => OpenOf(d, i) # -1
            /\ Inside(OpenOf(d, i), TrueOpenTagAt(d, OpenOf(d, i)), r)

\* The positions where a marker open tag <span id="sNNNNN"> begins.
Markers(d) == {i \in 0 .. Len(d) - 1 : LabellingSpanOpenTagAt(d, i) # -1}

\* The identifier of the marker at i: its five digits.
MarkerId(d, i) == SubSeq(d, i + 12, i + 16)

\* k zero-padded to 5 digits, for k < 10.
Padded(k) == <<"0", "0", "0", "0", DigitChar(k)>>

\* r is already labeled: its text contains a marker open tag, or a marker
\* open tag ends where r begins and its span reaches the end of r.
AlreadyLabeled(d, r) ==
  /\ ~Empty(r)
  /\ \/ \E i \in Markers(d) : Begin(r) <= i /\ i + 18 <= End(r)
     \/ /\ Begin(r) - 18 \in Markers(d)
        /\ MatchingClose(d, Span, Begin(r), 0) >= End(r)

\* The text contains a paragraph, division or line-break tag, opening or
\* closing.
ForbiddenNames == { <<"p">>, <<"d", "i", "v">>, <<"b", "r">> }
ContainsForbiddenTag(text) ==
  \E i \in 0 .. Len(text) - 1 : \E name \in ForbiddenNames :
    OpensNamed(text, name, i) \/ ClosesNamed(text, name, i)

\* Position p of d is inside a tag.
InTag(d, p) ==
  \E i \in 0 .. p : TrueOpenTagAt(d, i) > p \/ TrueCloseTagAt(d, i) > p

\* Non-space text outside the tags lies between from and start.
InterveningText(d, from, start) ==
  \E p \in from .. start - 1 : IsChar(d, p) /\ ~IsSpace(Ch(d, p)) /\ ~InTag(d, p)

---------------------------------------------------------------------------
(* The properties of the specification, each one stated of the state a     *)
(* command leaves: op is the command, arg the selection it was applied to, *)
(* before the buffer it found, doc the buffer it left, ok and out what it  *)
(* gave back.                                                              *)

\* C1 (idempotence of label): labeling one non-empty region that is already
\* labeled (its text contains a marker open tag, or a marker open tag ends
\* where it begins and that marker's span contains it) fails and leaves the
\* buffer as it was.
C1_LabelIdempotent ==
  (op = "surround" /\ Len(arg) = 1 /\ AlreadyLabeled(before, arg[1]))
    => (~ok /\ doc = before)

\* C2 (balance invariant): in a document all of whose tags have their
\* counterpart, the region the tag balancer gives, repeated to its fixed
\* point, is tag-balanced: the counterpart of every tag inside it is inside it.
C2_BalanceInvariant ==
  (op = "extend" /\ WellFormed(before)) => TagBalanced(before, out.region)

\* C3 (forbidden-nesting rejection): labeling one non-empty region whose text
\* contains a paragraph, division or line-break tag, opening or closing,
\* fails and leaves the buffer as it was.
C3_ForbiddenNestingRejected ==
  (op = "surround" /\ Len(arg) = 1 /\ ~Empty(arg[1])
     /\ ContainsForbiddenTag(Substr(before, arg[1])))
    => (~ok /\ doc = before)

\* C4 (renumbering): after renumbering, the k-th marker of the buffer carries
\* the identifier k padded to 5 digits; renumbering again changes nothing; and
\* renumbering a buffer that has no marker changes nothing.
C4_Renumbering ==
  op = "renumber"
    => /\ \A i \in Markers(doc) :
            MarkerId(doc, i) = Padded(Cardinality({j \in Markers(doc) : j <= i}))
       /\ ReNumberSentenceTags(doc) = doc
       /\ Markers(before) = {} => doc = before

\* C5 (no partial mutation): a surround command that reports failure leaves
\* the buffer as it was, having replaced nothing, also when it was applied to
\* several regions; and labeling one region with success is one replace.
C5_NoPartialMutation ==
  op = "surround"
    => /\ ~ok => (doc = before /\ replaces = 0)
       /\ (ok /\ Len(arg) = 1) => replaces = 1

\* The start of the next sentence as the locator resolves it from the end of
\* the region r.
ResolvedStart(d, r) == GetNextSentenceStartAfter(d, End(r))
TextIntervenes(d, r) ==
  ResolvedStart(d, r) >= 0 /\ InterveningText(d, End(r), ResolvedStart(d, r))

\* C6 (intervening-text guard): locating the next sentence from a non-empty
\* region gives no sentence, and changes nothing, when non-space text outside
\* the tags lies between the region's end and the resolved next sentence
\* start; when none does, it gives what locating from the point region.end
\* gives.
C6_InterveningTextGuard ==
  (op = "next" /\ ~Empty(arg[1]))
    => /\ doc = before
       /\ IF TextIntervenes(before, arg[1])
          THEN out.kind # "region"
          ELSE out = FindNextSentenceAfterPoint(before, End(arg[1]))

\* The sentence that ends at e ends with the period of the second of two
\* spaced initials ("J. K."), and text follows.
EndsAtSpacedInitial(d, e) ==
  /\ Ch(d, e - 5) \in Upper /\ Ch(d, e - 4) = "." /\ IsSpace(Ch(d, e - 3))
  /\ Ch(d, e - 2) \in Upper /\ Ch(d, e - 1) = "."
  /\ ~IsWord(Ch(d, e - 6))
  /\ IsSpace(Ch(d, e)) /\ IsWord(Ch(d, e + 1))

\* C7 (initials guard): from position 0 of "J. K. Rowling wrote it. Next
\* sentence." the located sentence is "J. K. Rowling wrote it."; and no
\* located sentence ends with the period of an initial in a sequence of
\* spaced initials, at the start of the document or after other text.
C7_InitialsGuard ==
  (op = "next" /\ out.kind = "region")
    => /\ (before = InitialsExample /\ arg = <<Cursor(0)>>)
            => out.region = Region(0, 23)
       /\ ~EndsAtSpacedInitial(before, End(out.region))

\* C8 (monotonic expansion): the region the tag balancer gives, in one pass
\* or repeated to its fixed point, contains the region it was given: it
\* begins at or before that region's begin and ends at or after its end.
C8_MonotonicExpansion ==
  op \in {"balance", "extend"}
    => /\ Begin(out.region) <= Begin(arg[1])
       /\ End(out.region) >= End(arg[1])

\* C8's case: the balancer moved both ends of a region of which a closing tag
\* has no opening tag in the document.
C8_Expanded ==
  /\ op = "balance"
  /\ Begin(out.region) < Begin(arg[1]) /\ End(out.region) > End(arg[1])
  /\ ~WellFormed(before)

\* C9 (termination): every locate operation returns: none of its searches
\* calls itself again with the arguments of an earlier call.
C9_Termination == op = "next" => out.kind # "diverged"

\* C10 (valid result region): a located sentence is a range of the document,
\* 0 <= begin < end <= length, that begins at or after the point queried (the
\* cursor, or the end of the region).
C10_ValidResultRegion ==
  (op = "next" /\ out.kind = "region")
    => /\ 0 <= Begin(out.region)
       /\ Begin(out.region) < End(out.region)
       /\ End(out.region) <= Len(before)
       /\ Begin(out.region) >= End(arg[1])
====
